---- MODULE Spec2Model ----
(***************************************************************************)
(* Arrow device export of cudf tables: to_arrow_device (array export with  *)
(* buffer ownership transfer and a stream sync event) and to_arrow_schema  *)
(* (recursive schema construction), cpp/src/interop/to_arrow_device.cu.    *)
(***************************************************************************)
EXTENDS Integers, Sequences, FiniteSets, TLC

(***************************************************************************)
(* Bounds of the model.                                                    *)
(***************************************************************************)
\* largest number of columns of an exported table
MaxCols == 2
\* largest number of rows of an exported table
MaxRows == 1

(***************************************************************************)
(* Part 1: to_arrow_device                                                 *)
(***************************************************************************)

VARIABLES
  table,      \* the input: the columns as built by upstream computation
  rows,       \* table.num_rows()
  tableCols,  \* the column objects the cudf::table holds (column indices)
  cols,       \* to_arrow_device's local `cols` (the released columns)
  colBufs,    \* per column object: the device buffers it owns
  contents,   \* the dispatcher's local `contents` (column::release())
  lbuf,       \* the dispatcher's local unique_ptr `buf` / `bitmask.first`
  ltmp,       \* the dispatcher's local `tmp` array node
  top,        \* to_arrow_device's `tmp`, later result.array
  children,   \* top->children[i]
  stream,     \* work enqueued on the producer's stream, in order
  executed,   \* how many stream entries the device has completed
  event,      \* the cudaEvent_t box and the event it names
  freeCount,  \* per device buffer: how often it was deallocated
  freedBy,    \* per device buffer: the owner whose destruction freed it
  pc,         \* position in to_arrow_device
  idx,        \* loop index i (1-based)
  outcome,    \* how the call ended
  failed,     \* primitives that reported a non-success status to the call
  result,     \* the returned ArrowDeviceArray
  consumer    \* the consumer of the returned array

devVars == <<table, rows, tableCols, cols, colBufs, contents, lbuf, ltmp, top,
             children, stream, executed, event, freeCount, freedBy, pc,
             idx, outcome, failed, result, consumer>>

\* ---- type ids and the type dispatcher's overload selection ----

RepLayoutTypes == {"INT32", "TIMESTAMP_SECONDS", "DURATION_SECONDS"}
NarrowDecimalTypes == {"DECIMAL32", "DECIMAL64"}
UnsupportedDeviceTypes == {"STRING", "LIST", "DICTIONARY32", "STRUCT"}
DeviceTypeIds ==
  {"INT32", "BOOL8", "DECIMAL32", "DECIMAL64", "DECIMAL128", "STRING",
   "DICTIONARY32", "EMPTY"}

\* which dispatch_to_arrow_device::operator() the type dispatcher selects
DeviceOverload(t) ==
  IF t \in NarrowDecimalTypes THEN "narrow_decimal"
  ELSE IF t = "DECIMAL128" THEN "decimal128"
  ELSE IF t = "BOOL8" THEN "bool"
  ELSE IF t \in UnsupportedDeviceTypes THEN "unsupported"
  ELSE "rep_layout"

\* sizeof(DeviceType) of the narrow decimals
SizeOfDeviceType(t) == IF t = "DECIMAL32" THEN 4 ELSE 8
\* BIT_WIDTH_RATIO = sizeof(__int128_t) / sizeof(DeviceType)
BitWidthRatio(t) == 16 \div SizeOfDeviceType(t)

\* ---- status codes ----
NANOARROW_OK == "NANOARROW_OK"
AbiStatus == {"NANOARROW_OK", "ENOMEM"}
CudaStatus == {"cudaSuccess", "cudaError"}

\* ---- device buffers ----
NoBuf == <<>>
DataBuf(i) == <<"data", i>>
MaskBuf(i) == <<"mask", i>>
NewBuf(i) == <<"new", i>>
BufIds(n) == {"data", "mask", "new"} \X (1 .. n)

\* the columns a table can hold
DeviceColumns ==
  [type : DeviceTypeIds \ {"EMPTY"}, hasMask : BOOLEAN]
  \cup [type : {"EMPTY"}, hasMask : {FALSE}]

Tables == UNION {[1 .. n -> DeviceColumns] : n \in 0 .. MaxCols}

\* ---- array nodes ----
EmptySlot == [data |-> NoBuf, owner |-> NoBuf]
\* a nanoarrow::UniqueArray before ArrowArrayInitFromType
BlankNode ==
  [state |-> "blank", type |-> "none", length |-> 0, null_count |-> 0,
   buf |-> <<EmptySlot, EmptySlot>>]

\* to_arrow_device's `tmp` before ArrowArrayInitFromType
BlankTop ==
  [state |-> "blank", length |-> 0, null_count |-> 0, n_children |-> 0,
   eventDealloc |-> FALSE]

NoContents == [data |-> NoBuf, mask |-> NoBuf]
NoEvent == [box |-> "none", handle |-> "null", destroyed |-> 0]
NoResult == [valid |-> FALSE, sync_event |-> "null", device_type |-> "none"]

DevInit ==
  /\ rows \in 0 .. MaxRows
  /\ table \in Tables
  /\ tableCols = [i \in 1 .. Len(table) |-> i]
  /\ cols = <<>>
  /\ colBufs = [i \in 1 .. Len(table) |->
                 [data |-> IF table[i].type = "EMPTY" THEN NoBuf ELSE DataBuf(i),
                  mask |-> IF table[i].hasMask THEN MaskBuf(i) ELSE NoBuf]]
  /\ contents = NoContents
  /\ lbuf = NoBuf
  /\ ltmp = BlankNode
  /\ top = BlankTop
  /\ children = [i \in 1 .. Len(table) |-> BlankNode]
  /\ stream = <<>>
  /\ executed = 0
  /\ event = NoEvent
  /\ freeCount = [b \in BufIds(Len(table)) |-> 0]
  /\ freedBy = [b \in BufIds(Len(table)) |-> "nobody"]
  /\ pc = "begin"
  /\ idx = 1
  /\ outcome = "running"
  /\ failed = {}
  /\ result = NoResult
  /\ consumer = [synced |-> FALSE, released |-> FALSE]

\* ---- ownership transfer and destruction ----

\* a set_buffer / release() that copies the pointer and leaves the source owning it
NotMovedFrom(b) == b

\* what std::move leaves in the source unique_ptr
MovedFrom(b) == NoBuf

\* a set_buffer that writes the pointer and installs no deallocator
SetPointerOnly(node, k, b) ==
  [node EXCEPT !.buf[k] = [data |-> b, owner |-> NoBuf]]

\* set_buffer: the slot's data pointer and a deallocator owning the buffer
SetBuffer(node, k, b) ==
  [node EXCEPT !.buf[k] = [data |-> b, owner |-> b]]

N(p) == IF p THEN 1 ELSE 0

\* buffers freed when the dispatcher's locals (tmp, buf, contents) go out of scope
LocalOcc(b, lt, ct, lb) ==
  N(ct.mask = b) + N(ct.data = b) + N(lb = b)
  + N(lt.buf[1].owner = b) + N(lt.buf[2].owner = b)

\* buffers freed by ~column of every column object
ColumnsOcc(b, cb) ==
  Cardinality({i \in DOMAIN cb : cb[i].data = b})
  + Cardinality({i \in DOMAIN cb : cb[i].mask = b})

\* an unwinding that releases only the first buffer slot of each child node
NodesOccFirstSlot(b, ch) ==
  Cardinality({i \in DOMAIN ch : ch[i].buf[1].owner = b})

\* device_buffer_finalize, run for every buffer slot of the released child nodes
NodesOcc(b, ch) ==
  Cardinality({i \in DOMAIN ch : ch[i].buf[1].owner = b})
  + Cardinality({i \in DOMAIN ch : ch[i].buf[2].owner = b})

FreedByAfter(fb, lt, ct, lb, cb, ch) ==
  [b \in DOMAIN fb |->
     IF lt.buf[1].owner = b \/ lt.buf[2].owner = b THEN "node"
     ELSE IF ct.mask = b \/ ct.data = b THEN "contents"
     ELSE IF lb = b THEN "local"
     ELSE IF ColumnsOcc(b, cb) > 0 THEN "column"
     ELSE IF NodesOcc(b, ch) > 0 THEN "node"
     ELSE fb[b]]

NoColumns(cb) == [i \in DOMAIN cb |-> NoContents]
NoNodes(ch) == [i \in DOMAIN ch |-> BlankNode]

\* the unique_ptr<cudaEvent_t> going out of scope: the box is deleted, the
\* event it names is not destroyed
DeleteEventBox(ev) ==
  IF ev.box = "unique_ptr" THEN [ev EXCEPT !.box = "deleted"] ELSE ev

\* an exception leaving to_arrow_device: the dispatcher's locals (as they are at
\* the throw: lt, ct, lb), then event, cols and tmp are destroyed
Throw(kind, lt, ct, lb) ==
  /\ pc' = "done"
  /\ outcome' = kind
  /\ freeCount' = [b \in DOMAIN freeCount |->
                     freeCount[b] + LocalOcc(b, lt, ct, lb)
                     + ColumnsOcc(b, colBufs) + NodesOcc(b, children)]
  /\ freedBy' = FreedByAfter(freedBy, lt, ct, lb, colBufs, children)
  /\ contents' = NoContents
  /\ lbuf' = NoBuf
  /\ ltmp' = BlankNode
  /\ cols' = <<>>
  /\ colBufs' = NoColumns(colBufs)
  /\ children' = NoNodes(children)
  /\ top' = BlankTop
  /\ event' = DeleteEventBox(event)
  /\ UNCHANGED <<table, rows, tableCols, stream, executed, idx, result,
                 consumer>>

\* ---- to_arrow_device, lines 533-540 ----
BeginExport ==
  /\ pc = "begin"
  /\ \E sInit \in AbiStatus, sAlloc \in AbiStatus :
       LET bad == {p \in {"ArrowArrayInitFromType", "ArrowArrayAllocateChildren"} :
                     \/ p = "ArrowArrayInitFromType" /\ sInit # NANOARROW_OK
                     \/ p = "ArrowArrayAllocateChildren" /\ sAlloc # NANOARROW_OK}
       IN IF bad # {}
          THEN \* neither status is looked at: the node is used uninitialised
               /\ failed' = failed \cup bad
               /\ pc' = "done"
               /\ outcome' = "undefined"
               /\ UNCHANGED <<top, cols, tableCols>>
          ELSE /\ top' = [BlankTop EXCEPT !.state = "init", !.length = rows,
                                           !.n_children = Len(tableCols)]
               /\ cols' = tableCols
               /\ tableCols' = <<>>
               /\ pc' = "loop"
               /\ UNCHANGED <<failed, outcome>>
  /\ UNCHANGED <<table, rows, colBufs, contents, lbuf, ltmp, children, stream, executed, event, freeCount, freedBy, idx, result,
                 consumer>>

Col == table[cols[idx]]

\* column.null_count(): a column without a mask has no nulls; the i-th column
\* of the table, when it has a mask, is taken to have i mod (rows + 1) nulls
NullCountOf(i) == IF table[i].hasMask THEN i % (rows + 1) ELSE 0

\* lines 545-550
ConvertEmpty ==
  /\ pc = "loop" /\ idx <= Len(cols) /\ Col.type = "EMPTY"
  /\ \E s \in AbiStatus :
       /\ children' = [children EXCEPT ![idx] =
            [BlankNode EXCEPT !.state = IF s = NANOARROW_OK THEN "built" ELSE "blank",
                              !.type = IF s = NANOARROW_OK THEN "NA" ELSE "none",
                              !.length = rows, !.null_count = rows]]
       /\ failed' = IF s = NANOARROW_OK THEN failed
                    ELSE failed \cup {"ArrowArrayInitFromType"}
  /\ idx' = idx + 1
  /\ UNCHANGED <<table, rows, tableCols, cols, colBufs, contents, lbuf, ltmp,
                 top, stream, executed, event, freeCount, freedBy, pc,
                 outcome, result, consumer>>

\* lines 440-492: CUDF_FAIL in the string, list, dictionary and struct overloads
ConvertUnsupported ==
  /\ pc = "loop" /\ idx <= Len(cols)
  /\ Col.type # "EMPTY" /\ DeviceOverload(Col.type) = "unsupported"
  /\ failed' = failed \cup {"unsupported type"}
  /\ Throw("unsupported_type", ltmp, contents, lbuf)

\* the ArrowType the node is initialised with
StorageType(t) ==
  IF t \in NarrowDecimalTypes \cup {"DECIMAL128"} THEN "DECIMAL128"
  ELSE IF t = "BOOL8" THEN "BOOL"
  ELSE IF t = "TIMESTAMP_SECONDS" THEN "TIMESTAMP"
  ELSE IF t = "DURATION_SECONDS" THEN "DURATION"
  ELSE t

\* lines 293-310, 331-332, 401-404, 424-427
DispatchInit ==
  /\ pc = "loop" /\ idx <= Len(cols)
  /\ Col.type # "EMPTY" /\ DeviceOverload(Col.type) # "unsupported"
  /\ \E s \in AbiStatus :
       IF s # NANOARROW_OK
       THEN /\ failed' = failed \cup {"ArrowArrayInitFromType"}
            /\ Throw("abi_build", ltmp, contents, lbuf)
       ELSE /\ ltmp' = [BlankNode EXCEPT
                          !.state = "init", !.type = StorageType(Col.type),
                          !.length = IF DeviceOverload(Col.type) = "narrow_decimal"
                                     THEN 0 ELSE rows,
                          !.null_count = IF DeviceOverload(Col.type) = "narrow_decimal"
                                         THEN 0 ELSE NullCountOf(cols[idx])]
            /\ pc' = CASE DeviceOverload(Col.type) = "narrow_decimal" -> "d_alloc"
                       [] DeviceOverload(Col.type) = "bool" -> "d_pack"
                       [] OTHER -> "d_release"
            /\ UNCHANGED <<table, rows, tableCols, cols, colBufs, contents, lbuf,
                           top, children, stream, executed, event,
                           freeCount, freedBy, idx, outcome, failed, result,
                           consumer>>

\* lines 334-336: the wider buffer is allocated (rmm may throw)
DecimalAlloc ==
  /\ pc = "d_alloc"
  /\ \E ok \in BOOLEAN :
       IF ~ok
       THEN /\ failed' = failed \cup {"device allocation"}
            /\ Throw("bad_alloc", ltmp, contents, lbuf)
       ELSE /\ lbuf' = NewBuf(cols[idx])
            /\ pc' = "d_kernel"
            /\ UNCHANGED <<table, rows, tableCols, cols, colBufs, contents, ltmp,
                           top, children, stream, executed, event, freeCount,
                           freedBy, idx, outcome, failed, result, consumer>>

\* lines 338-358: the kernel is enqueued on the stream
DecimalKernel ==
  /\ pc = "d_kernel"
  /\ stream' = Append(stream, [op |-> "widen", col |-> cols[idx], ev |-> "null"])
  /\ ltmp' = [ltmp EXCEPT !.length = rows, !.null_count = NullCountOf(cols[idx])]
  /\ pc' = "d_release"
  /\ UNCHANGED <<table, rows, tableCols, cols, colBufs, contents, lbuf, top,
                 children, executed, event, freeCount, freedBy, idx, outcome,
                 failed, result, consumer>>

\* line 429: bools_to_mask allocates the packed bitmask and enqueues the packing
BoolsToMask ==
  /\ pc = "d_pack"
  /\ \E ok \in BOOLEAN :
       IF ~ok
       THEN /\ failed' = failed \cup {"device allocation"}
            /\ Throw("bad_alloc", ltmp, contents, lbuf)
       ELSE /\ lbuf' = NewBuf(cols[idx])
            /\ stream' = Append(stream, [op |-> "pack", col |-> cols[idx], ev |-> "null"])
            /\ pc' = "d_release"
            /\ UNCHANGED <<table, rows, tableCols, cols, colBufs, contents, ltmp,
                           top, children, executed, event, freeCount,
                           freedBy, idx, outcome, failed, result, consumer>>

\* ---- lines 312, 360, 406, 430: column::release() ----
ReleaseColumn ==
  /\ pc = "d_release"
  /\ contents' = colBufs[cols[idx]]
  /\ colBufs' = [colBufs EXCEPT ![cols[idx]] =
                   [data |-> MovedFrom(colBufs[cols[idx]].data),
                    mask |-> MovedFrom(colBufs[cols[idx]].mask)]]
  /\ pc' = "d_mask"
  /\ UNCHANGED <<table, rows, tableCols, cols, lbuf, ltmp, top, children, stream, executed, event, freeCount, freedBy, idx, outcome,
                 failed, result, consumer>>

\* a test of the null mask that never finds one
NeverHasNullMask(ct) == FALSE

\* if (contents.null_mask)
HasNullMask(ct) == ct.mask # NoBuf

\* lines 313, 361, 407, 431
SetNullMask ==
  /\ pc = "d_mask"
  /\ IF HasNullMask(contents)
     THEN /\ ltmp' = SetBuffer(ltmp, 1, contents.mask)
          /\ contents' = [contents EXCEPT !.mask = MovedFrom(contents.mask)]
     ELSE UNCHANGED <<ltmp, contents>>
  /\ pc' = "d_data"
  /\ UNCHANGED <<table, rows, tableCols, cols, colBufs, lbuf, top, children,
                 stream, executed, event, freeCount, freedBy, idx, outcome,
                 failed, result, consumer>>

\* lines 315, 409: the column's own data buffer goes into slot 1
SetDataBuffer ==
  /\ pc = "d_data"
  /\ DeviceOverload(Col.type) \in {"rep_layout", "decimal128"}
  /\ ltmp' = SetBuffer(ltmp, 2, contents.data)
  /\ contents' = [contents EXCEPT !.data = MovedFrom(contents.data)]
  /\ pc' = "d_finish"
  /\ UNCHANGED <<table, rows, tableCols, cols, colBufs, lbuf, top, children,
                 stream, executed, event, freeCount, freedBy, idx, outcome,
                 failed, result, consumer>>

\* lines 362, 432: the newly allocated buffer goes into slot 1
SetNewBuffer ==
  /\ pc = "d_data"
  /\ DeviceOverload(Col.type) \in {"narrow_decimal", "bool"}
  /\ ltmp' = SetBuffer(ltmp, 2, lbuf)
  /\ lbuf' = MovedFrom(lbuf)
  /\ pc' = "d_finish"
  /\ UNCHANGED <<table, rows, tableCols, cols, colBufs, contents, top, children,
                 stream, executed, event, freeCount, freedBy, idx, outcome,
                 failed, result, consumer>>

\* lines 317-320 (364-367, 411-414, 434-437) and the check of line 554
FinishColumn ==
  /\ pc = "d_finish"
  /\ \E s \in AbiStatus :
       IF s # NANOARROW_OK
       THEN /\ failed' = failed \cup {"ArrowArrayFinishBuilding"}
            /\ Throw("abi_build", ltmp, contents, lbuf)
       ELSE \* ArrowArrayMove(tmp.get(), out); the locals go out of scope
            /\ children' = [children EXCEPT ![idx] = [ltmp EXCEPT !.state = "built"]]
            /\ freeCount' = [b \in DOMAIN freeCount |->
                               freeCount[b] + LocalOcc(b, BlankNode, contents, lbuf)]
            /\ freedBy' = FreedByAfter(freedBy, BlankNode, contents, lbuf,
                                       <<>>, <<>>)
            /\ ltmp' = BlankNode
            /\ contents' = NoContents
            /\ lbuf' = NoBuf
            /\ idx' = idx + 1
            /\ pc' = "loop"
            /\ UNCHANGED <<table, rows, tableCols, cols, colBufs, top, stream, executed, event, outcome, failed, result,
                           consumer>>

\* ---- lines 557-561: the sync event ----
EventCreate ==
  /\ pc = "loop" /\ idx > Len(cols)
  /\ \E s \in CudaStatus :
       /\ event' = [box |-> "unique_ptr",
                    handle |-> IF s = "cudaSuccess" THEN "event" ELSE "null",
                    destroyed |-> 0]
       /\ failed' = IF s = "cudaSuccess" THEN failed
                    ELSE failed \cup {"cudaEventCreate"}
  /\ pc' = "event_record"
  /\ UNCHANGED <<table, rows, tableCols, cols, colBufs, contents, lbuf, ltmp,
                 top, children, stream, executed, freeCount, freedBy, idx,
                 outcome, result, consumer>>

\* the statuses cudaEventRecord can return: an event that was never created is
\* an invalid handle
RecordStatus(ev) == IF ev.handle # "null" THEN CudaStatus ELSE {"cudaError"}

\* a record issued ahead of the conversions' device work
RecordAhead(s, h) == <<[op |-> "record", col |-> 0, ev |-> h]>> \o s

\* cudaEventRecord(*event, stream): the record follows the work already
\* enqueued on the stream
RecordOn(s, h) == Append(s, [op |-> "record", col |-> 0, ev |-> h])

EventRecord ==
  /\ pc = "event_record"
  /\ \E s \in RecordStatus(event) :
       IF s # "cudaSuccess"
       THEN /\ failed' = failed \cup {"cudaEventRecord"}
            /\ Throw("device_resource", ltmp, contents, lbuf)
       ELSE /\ stream' = RecordOn(stream, event.handle)
            /\ pc' = "attach"
            /\ UNCHANGED <<table, rows, tableCols, cols, colBufs, contents, lbuf,
                           ltmp, top, children, executed, event, freeCount,
                           freedBy, idx, outcome, failed, result, consumer>>

\* lines 563-575: event.release() and the deallocator of buffer 0
AttachSyncEvent ==
  /\ pc = "attach"
  /\ event' = [event EXCEPT !.box = "raw"]
  /\ top' = [top EXCEPT !.eventDealloc = TRUE]
  /\ pc' = "return"
  /\ UNCHANGED <<table, rows, tableCols, cols, colBufs, contents, lbuf, ltmp,
                 children, stream, executed, freeCount, freedBy, idx,
                 outcome, failed, result, consumer>>

\* the event result.sync_event points to (void* sync_event = event.release())
SyncEventOf(ev) == IF ev.box = "raw" THEN ev.handle ELSE "null"

\* lines 577-583; `cols` goes out of scope
ReturnResult ==
  /\ pc = "return"
  /\ result' = [valid |-> TRUE, sync_event |-> SyncEventOf(event),
                device_type |-> "ARROW_DEVICE_CUDA"]
  /\ top' = [top EXCEPT !.state = "moved"]
  /\ freeCount' = [b \in DOMAIN freeCount |-> freeCount[b] + ColumnsOcc(b, colBufs)]
  /\ freedBy' = FreedByAfter(freedBy, BlankNode, NoContents, NoBuf, colBufs, <<>>)
  /\ cols' = <<>>
  /\ colBufs' = NoColumns(colBufs)
  /\ pc' = "done"
  /\ outcome' = "ok"
  /\ UNCHANGED <<table, rows, tableCols, contents, lbuf, ltmp, children, stream, executed, event, idx, failed, consumer>>

\* ---- the device and the consumer ----

\* the device completes the next entry of the stream
DeviceStep ==
  /\ executed < Len(stream)
  /\ executed' = executed + 1
  /\ UNCHANGED <<table, rows, tableCols, cols, colBufs, contents, lbuf, ltmp,
                 top, children, stream, event, freeCount, freedBy, pc, idx,
                 outcome, failed, result, consumer>>

\* the recorded event has completed
EventReached(h) ==
  \E k \in 1 .. executed : stream[k].op = "record" /\ stream[k].ev = h

\* the consumer waits on result.sync_event
ConsumerWait ==
  /\ outcome = "ok" /\ ~consumer.synced /\ ~consumer.released
  /\ result.sync_event # "null" /\ EventReached(result.sync_event)
  /\ consumer' = [consumer EXCEPT !.synced = TRUE]
  /\ UNCHANGED <<table, rows, tableCols, cols, colBufs, contents, lbuf, ltmp,
                 top, children, stream, executed, event, freeCount,
                 freedBy, pc, idx, outcome, failed, result>>

\* the consumer calls result.array.release: the children are released, then the
\* deallocator of buffer 0 destroys the event
ReleaseArray ==
  /\ outcome = "ok" /\ ~consumer.released
  /\ consumer' = [consumer EXCEPT !.released = TRUE]
  /\ freeCount' = [b \in DOMAIN freeCount |-> freeCount[b] + NodesOcc(b, children)]
  /\ freedBy' = FreedByAfter(freedBy, BlankNode, NoContents, NoBuf, <<>>, children)
  /\ children' = NoNodes(children)
  /\ event' = IF top.eventDealloc
              THEN [event EXCEPT !.destroyed = @ + 1, !.box = "deleted"]
              ELSE event
  /\ top' = [top EXCEPT !.state = "released", !.eventDealloc = FALSE]
  /\ UNCHANGED <<table, rows, tableCols, cols, colBufs, contents, lbuf, ltmp,
                 stream, executed, pc, idx, outcome, failed, result>>

(***************************************************************************)
(* Part 2: the decimal widening kernel of unsupported_decimals_to_arrow,   *)
(* one device thread per input element                                     *)
(***************************************************************************)

\* largest number of elements of a widened column
MaxElems == 2

VARIABLES
  wType,  \* the column's type id: DECIMAL32 or DECIMAL64
  wIn,    \* input.view().begin<DeviceType>(): the stored values
  wOut,   \* buf: the device_uvector<DeviceType> handed to slot 1
  wDone,  \* the input elements whose thread has run
  wPc     \* position in unsupported_decimals_to_arrow

widVars == <<wType, wIn, wOut, wDone, wPc>>

\* sample element values (DeviceType is signed; -1 has all bits set)
SampleValues == {-2147483647 - 1, -1, 0, 2147483647}

\* a device_uvector element that no thread has written yet
Unwritten == [written |-> FALSE, val |-> 0]
Word(v) == [written |-> TRUE, val |-> v]

\* zero extension in place of sign extension
ZeroWord(v) == 0 * v

\* the higher-order words of a slot: the sign of the value, repeated
SignWord(v) == IF v < 0 THEN -1 ELSE 0

\* the first word of the slot of input element e (1-based): in_idx * BIT_WIDTH_RATIO
OutIdx(e, ratio) == (e - 1) * ratio + 1

\* the device lambda, for input element e
WidenElement(out, in, e, ratio) ==
  [j \in DOMAIN out |->
     IF j = OutIdx(e, ratio) THEN Word(in[e])
     ELSE IF j \in (OutIdx(e, ratio) + 1) .. (OutIdx(e, ratio) + ratio - 1)
          THEN Word(SignWord(in[e]))
          ELSE out[j]]

\* the number of DeviceType words allocated: input.size() * BIT_WIDTH_RATIO
WideLength(n, t) == n * BitWidthRatio(t)

WidInit ==
  /\ wType \in NarrowDecimalTypes
  /\ wIn \in UNION {[1 .. n -> SampleValues] : n \in 0 .. MaxElems}
  /\ wOut = <<>>
  /\ wDone = {}
  /\ wPc = "alloc"

WidIdle ==
  /\ wType = "DECIMAL32" /\ wIn = <<>> /\ wOut = <<>> /\ wDone = {}
  /\ wPc = "idle"

\* lines 334-336
WidenAlloc ==
  /\ wPc = "alloc"
  /\ wOut' = [j \in 1 .. WideLength(Len(wIn), wType) |-> Unwritten]
  /\ wPc' = "kernel"
  /\ UNCHANGED <<wType, wIn, wDone>>

\* lines 340-355: the thread of one element; the threads run in any order
WidenThread ==
  /\ wPc = "kernel"
  /\ \E e \in (1 .. Len(wIn)) \ wDone :
       /\ wOut' = WidenElement(wOut, wIn, e, BitWidthRatio(wType))
       /\ wDone' = wDone \cup {e}
  /\ UNCHANGED <<wType, wIn, wPc>>

\* every thread has run: the buffer is what set_buffer(buf, 1, ...) hands over
WidenComplete ==
  /\ wPc = "kernel" /\ wDone = 1 .. Len(wIn)
  /\ wPc' = "done"
  /\ UNCHANGED <<wType, wIn, wOut, wDone>>

(***************************************************************************)
(* Part 3: to_arrow_schema                                                 *)
(***************************************************************************)

\* deepest nesting of a column below the table's columns
MaxDepth == 2
\* largest number of children of a struct column or of a metadata entry
MaxKids == 2
\* most columns of a table handed to to_arrow_schema; its columns share one
\* shape and its metadata entries share one shape
MaxSchemaCols == 1
\* the construction primitives of an iteration that may fail: the first
\* MaxFailAt calls, one at a time
MaxFailAt == 3

VARIABLES
  sCols,     \* input.num_columns()
  sMetaLen,  \* metadata.size()
  sPc,       \* position in to_arrow_schema
  sIdx,      \* loop index i (1-based)
  sCol,      \* input.column(i), the same for every i
  sMeta,     \* metadata[i], the same for every i
  sChild,    \* result->children[i] as the iteration last run left it
  sStatus,   \* what the type dispatcher returned or threw in that iteration
  sOutcome,  \* how the call ended
  sFailed    \* primitives and checks that reported a failure to the call

schVars == <<sCols, sMetaLen, sPc, sIdx, sCol, sMeta, sChild, sStatus, sOutcome,
             sFailed>>

\* ---- the inputs: column views and column metadata ----

Leaf(t, n) == [type |-> t, nullable |-> n, children |-> <<>>]
SchemaLeaves == {Leaf("INT32", n) : n \in BOOLEAN} \cup {Leaf("EMPTY", FALSE)}

\* children of a struct: plain nullable int32 fields, then one field of any shape
Fields(k, last) == [i \in 1 .. k |-> IF i < k THEN Leaf("INT32", TRUE) ELSE last]

RECURSIVE SchemaColumns(_)
SchemaColumns(d) ==
  IF d = 0 THEN SchemaLeaves
  ELSE LET sub == SchemaColumns(d - 1)
       IN SchemaLeaves
          \cup {[type |-> "STRUCT", nullable |-> n, children |-> <<>>] : n \in BOOLEAN}
          \cup {[type |-> "STRUCT", nullable |-> n, children |-> Fields(k, c)] :
                  n \in BOOLEAN, k \in 1 .. MaxKids, c \in sub}
          \cup {[type |-> "LIST", nullable |-> n, children |-> <<c>>] :
                  n \in BOOLEAN, c \in sub}
          \cup {[type |-> "DICTIONARY32", nullable |-> FALSE,
                 children |-> <<Leaf("INT32", FALSE), c>>] : c \in sub}

\* the name a caller gives the i-th child entry
FieldName(i) == "f" \o ToString(i)
LeafMeta(name) == [name |-> name, children_meta |-> <<>>]

RECURSIVE MetaTrees(_, _)
MetaTrees(d, name) ==
  IF d = 0 THEN {LeafMeta(name)}
  ELSE {LeafMeta(name)}
       \cup UNION {{[name |-> name,
                     children_meta |->
                       [i \in 1 .. k |-> IF i < k THEN LeafMeta(FieldName(i)) ELSE m]] :
                      m \in MetaTrees(d - 1, FieldName(k))} : k \in 1 .. MaxKids}

\* ---- schema nodes and the nanoarrow construction primitives ----

\* a node after ArrowSchemaInit: no type, no children, the name and the flags
\* as the library leaves them
BlankSchema ==
  [type |-> "uninitialized", params |-> <<>>, name |-> "<unset>",
   flags |-> "<unset>", children |-> <<>>, dictionary |-> <<>>]

Flags(nullable) == IF nullable THEN "ARROW_FLAG_NULLABLE" ELSE "0"

\* ArrowSchemaSetTypeStruct: the type and n initialised children
SetTypeStruct(node, n) ==
  [node EXCEPT !.type = "struct", !.children = [i \in 1 .. n |-> BlankSchema]]

\* ArrowSchemaSetType(out, NANOARROW_TYPE_LIST): the type and the one child
SetTypeList(node) == [node EXCEPT !.type = "list", !.children = <<BlankSchema>>]

\* a mapping that falls back to a tag for every type id
FallbackToInt32(id) == "int32"

\* id_to_arrow_type
IdToArrowType(id) ==
  CASE id = "BOOL8" -> "bool"
    [] id = "INT8" -> "int8"
    [] id = "INT16" -> "int16"
    [] id = "INT32" -> "int32"
    [] id = "INT64" -> "int64"
    [] id = "UINT8" -> "uint8"
    [] id = "UINT16" -> "uint16"
    [] id = "UINT32" -> "uint32"
    [] id = "UINT64" -> "uint64"
    [] id = "FLOAT32" -> "float"
    [] id = "FLOAT64" -> "double"
    [] id = "TIMESTAMP_DAYS" -> "date32"
    [] OTHER -> "unsupported"

\* the type the overload for fixed-width types sets
RepLayoutArrowType(id) ==
  CASE id = "TIMESTAMP_SECONDS" -> "timestamp[s]"
    [] id = "TIMESTAMP_MILLISECONDS" -> "timestamp[ms]"
    [] id = "TIMESTAMP_MICROSECONDS" -> "timestamp[us]"
    [] id = "TIMESTAMP_NANOSECONDS" -> "timestamp[ns]"
    [] id = "DURATION_SECONDS" -> "duration[s]"
    [] id = "DURATION_MILLISECONDS" -> "duration[ms]"
    [] id = "DURATION_MICROSECONDS" -> "duration[us]"
    [] id = "DURATION_NANOSECONDS" -> "duration[ns]"
    [] OTHER -> IdToArrowType(id)

\* the type ids of the fixed-width numbers and of the timestamps and durations
NumericTypes ==
  {"INT8", "INT16", "INT32", "INT64", "UINT8", "UINT16", "UINT32", "UINT64",
   "FLOAT32", "FLOAT64"}
ChronoTypes ==
  {"TIMESTAMP_DAYS", "TIMESTAMP_SECONDS", "TIMESTAMP_MILLISECONDS",
   "TIMESTAMP_MICROSECONDS", "TIMESTAMP_NANOSECONDS", "DURATION_DAYS",
   "DURATION_SECONDS", "DURATION_MILLISECONDS", "DURATION_MICROSECONDS",
   "DURATION_NANOSECONDS"}
DecimalTypes == {"DECIMAL32", "DECIMAL64", "DECIMAL128"}

\* is_rep_layout_compatible<T>() for the types without an overload of their own
IsRepLayoutCompatible(id) == id \in NumericTypes \cup ChronoTypes

\* `using DeviceType` of the decimal overloads
DecimalDeviceType(id) ==
  CASE id = "DECIMAL32" -> "int32_t"
    [] id = "DECIMAL64" -> "int64_t"
    [] id = "DECIMAL128" -> "__int128_t"

\* decimals_to_arrow: ArrowSchemaSetTypeDecimal(out, DECIMAL128, precision, scale)
DecimalsToArrow(col, out) ==
  [out EXCEPT !.type = "decimal128",
              !.params = <<"max_precision", DecimalDeviceType(col.type), -col.scale>>]

\* the metadata the list overload hands to the dispatch of its child
ListChildMeta(meta) ==
  IF meta.children_meta = <<>> THEN LeafMeta("element") ELSE meta.children_meta[1]

\* the metadata the dictionary overload hands to the dispatch of its keys
DictKeysMeta(meta) ==
  IF meta.children_meta = <<>> THEN LeafMeta("keys") ELSE meta.children_meta[1]

\* the name the struct overload gives the i-th child node
StructChildName(meta, i) == meta.name

\* the flags stored in the list node
ListNodeFlags(node, child) == Flags(child.nullable)

\* a shape check that only refuses missing entries
EnoughEntries(col, meta) == Len(meta.children_meta) >= Len(col.children)

\* the shape check of the struct overload
StructShapeOk(col, meta) == Len(meta.children_meta) = Len(col.children)

\* The dispatch returns [st, node, calls]: st is NANOARROW_OK, a non-success
\* status ("ENOMEM") or the exception thrown; node is *out as the dispatch left
\* it; calls counts the construction primitives called so far, of which call
\* number `f` reports a failure (f = 0: none does).
Result(st, node, calls) == [st |-> st, node |-> node, calls |-> calls]
Status(calls, f) == IF calls + 1 = f THEN "ENOMEM" ELSE NANOARROW_OK

RECURSIVE DispatchToArrowType(_, _, _, _, _)
RECURSIVE StructChildren(_, _, _, _, _, _)

\* the loop of the struct overload from child i on
StructChildren(col, meta, node, i, calls, f) ==
  IF i > Len(col.children) THEN Result(NANOARROW_OK, node, calls)
  ELSE
    LET c == col.children[i]
        sName == Status(calls, f)
        named == [node.children[i] EXCEPT !.name = StructChildName(meta, i)]
        flagged == [named EXCEPT !.flags = Flags(c.nullable)]
    IN IF sName # NANOARROW_OK THEN Result(sName, node, calls + 1)
       ELSE IF c.type = "EMPTY"
       THEN LET sNa == Status(calls + 1, f)
            IN IF sNa # NANOARROW_OK
               THEN Result(sNa, [node EXCEPT !.children[i] = flagged], calls + 2)
               ELSE StructChildren(col, meta,
                      [node EXCEPT !.children[i] = [flagged EXCEPT !.type = "na"]],
                      i + 1, calls + 2, f)
       ELSE LET r == DispatchToArrowType(c, meta.children_meta[i], flagged,
                                         calls + 1, f)
                after == [node EXCEPT !.children[i] = r.node]
            IN IF r.st # NANOARROW_OK THEN Result(r.st, after, r.calls)
               ELSE StructChildren(col, meta, after, i + 1, r.calls, f)

DispatchToArrowType(col, meta, out, calls, f) ==
  CASE col.type = "STRUCT" ->
         IF ~StructShapeOk(col, meta) THEN Result("shape_mismatch", out, calls)
         ELSE IF Status(calls, f) # NANOARROW_OK
         THEN Result(Status(calls, f), out, calls + 1)
         ELSE StructChildren(col, meta, SetTypeStruct(out, Len(col.children)),
                             1, calls + 1, f)
    [] col.type = "LIST" ->
         IF Status(calls, f) # NANOARROW_OK
         THEN Result(Status(calls, f), out, calls + 1)
         ELSE LET node == SetTypeList(out)
                  child == col.children[1]
              IN IF child.type = "EMPTY"
                 THEN Result(Status(calls + 1, f),
                             IF Status(calls + 1, f) = NANOARROW_OK
                             THEN [node EXCEPT !.children[1].type = "na"]
                             ELSE node,
                             calls + 2)
                 ELSE LET flagged == [node EXCEPT !.flags = ListNodeFlags(node, child)]
                          r == DispatchToArrowType(child, ListChildMeta(meta),
                                                   flagged.children[1], calls + 1, f)
                      IN Result(r.st, [flagged EXCEPT !.children[1] = r.node],
                                r.calls)
    [] col.type = "DICTIONARY32" ->
         IF Status(calls, f) # NANOARROW_OK
         THEN Result(Status(calls, f), out, calls + 1)
         ELSE LET alloc == [out EXCEPT !.dictionary = <<BlankSchema>>]
                  itype == IdToArrowType(col.children[1].type)
              IN IF itype = "unsupported"
                 THEN Result("unsupported_type", alloc, calls + 1)
                 ELSE IF Status(calls + 1, f) # NANOARROW_OK
                 THEN Result(Status(calls + 1, f), alloc, calls + 2)
                 ELSE LET typed == [alloc EXCEPT !.type = itype]
                          r == DispatchToArrowType(col.children[2], DictKeysMeta(meta),
                                                   typed.dictionary[1], calls + 2, f)
                      IN Result(r.st, [typed EXCEPT !.dictionary = <<r.node>>],
                                r.calls)
    [] col.type \in DecimalTypes ->
         IF Status(calls, f) # NANOARROW_OK
         THEN Result(Status(calls, f), out, calls + 1)
         ELSE Result(NANOARROW_OK, DecimalsToArrow(col, out), calls + 1)
    [] col.type = "BOOL8" ->
         IF Status(calls, f) # NANOARROW_OK
         THEN Result(Status(calls, f), out, calls + 1)
         ELSE Result(NANOARROW_OK, [out EXCEPT !.type = "bool"], calls + 1)
    [] col.type = "STRING" ->
         IF Status(calls, f) # NANOARROW_OK
         THEN Result(Status(calls, f), out, calls + 1)
         ELSE Result(NANOARROW_OK, [out EXCEPT !.type = "string"], calls + 1)
    [] OTHER ->
         IF ~IsRepLayoutCompatible(col.type)
         THEN Result("unsupported_type", out, calls)
         ELSE IF RepLayoutArrowType(col.type) = "unsupported"
         THEN Result("unsupported_type", out, calls)
         ELSE IF Status(calls, f) # NANOARROW_OK
         THEN Result(Status(calls, f), out, calls + 1)
         ELSE Result(NANOARROW_OK, [out EXCEPT !.type = RepLayoutArrowType(col.type)],
                     calls + 1)

\* ---- to_arrow_schema ----

NoColumn == Leaf("none", FALSE)

SchInit ==
  /\ sCols \in 0 .. MaxSchemaCols
  /\ sMetaLen \in 0 .. MaxSchemaCols
  /\ IF sCols = sMetaLen /\ sCols > 0
     THEN /\ sCol \in SchemaColumns(MaxDepth)
          /\ sMeta \in MetaTrees(MaxDepth, "c")
     ELSE /\ sCol = NoColumn
          /\ sMeta = LeafMeta("none")
  /\ sPc = "begin"
  /\ sIdx = 1
  /\ sChild = BlankSchema
  /\ sStatus = "none"
  /\ sOutcome = "running"
  /\ sFailed = {}

SchIdle ==
  /\ sCols = 0 /\ sMetaLen = 0 /\ sPc = "idle" /\ sIdx = 1 /\ sCol = NoColumn
  /\ sMeta = LeafMeta("none") /\ sChild = BlankSchema /\ sStatus = "none"
  /\ sOutcome = "idle" /\ sFailed = {}

SchemaEnd(kind, why) ==
  /\ sPc' = "done"
  /\ sOutcome' = kind
  /\ sFailed' = sFailed \cup why

\* lines 500-507
SchemaBegin ==
  /\ sPc = "begin"
  /\ \E s \in AbiStatus :
       IF sMetaLen # sCols
       THEN SchemaEnd("shape_mismatch", {"metadata size"})
       ELSE IF s # NANOARROW_OK
       THEN SchemaEnd("abi_build", {"ArrowSchemaSetTypeStruct"})
       ELSE /\ sPc' = "loop"
            /\ UNCHANGED <<sOutcome, sFailed>>
  /\ UNCHANGED <<sCols, sMetaLen, sIdx, sCol, sMeta, sChild, sStatus>>

\* the exception or error of a dispatch, as to_arrow_schema passes it on
SchemaOutcomeOf(st) ==
  IF st \in {"shape_mismatch", "unsupported_type"} THEN st ELSE "abi_build"

\* lines 510-524: one iteration of the loop over the columns
SchemaColumn ==
  /\ sPc = "loop" /\ sIdx <= sCols
  /\ \E f \in 0 .. MaxFailAt :
       LET sName == Status(0, f)
           named == [BlankSchema EXCEPT
                       !.name = IF sName = NANOARROW_OK THEN sMeta.name ELSE @,
                       !.flags = Flags(sCol.nullable)]
           ignored == IF sName = NANOARROW_OK THEN {} ELSE {"ArrowSchemaSetName"}
       IN IF sCol.type = "EMPTY"
          THEN LET sNa == Status(1, f)
               IN /\ sChild' = [named EXCEPT
                                  !.type = IF sNa = NANOARROW_OK THEN "na" ELSE @]
                  /\ sStatus' = "skipped"
                  /\ sFailed' = sFailed \cup ignored
                       \cup (IF sNa = NANOARROW_OK THEN {} ELSE {"ArrowSchemaSetType"})
                  /\ sIdx' = sIdx + 1
                  /\ UNCHANGED <<sPc, sOutcome>>
          ELSE LET r == DispatchToArrowType(sCol, sMeta, named, 1, f)
               IN /\ sChild' = r.node
                  /\ sStatus' = r.st
                  /\ IF r.st = NANOARROW_OK
                     THEN /\ sIdx' = sIdx + 1
                          /\ sFailed' = sFailed \cup ignored
                          /\ UNCHANGED <<sPc, sOutcome>>
                     ELSE /\ SchemaEnd(SchemaOutcomeOf(r.st), ignored \cup {r.st})
                          /\ UNCHANGED sIdx
  /\ UNCHANGED <<sCols, sMetaLen, sCol, sMeta>>

\* line 526
SchemaReturn ==
  /\ sPc = "loop" /\ sIdx > sCols
  /\ sPc' = "done"
  /\ sOutcome' = "ok"
  /\ UNCHANGED <<sCols, sMetaLen, sIdx, sCol, sMeta, sChild, sStatus, sFailed>>

(***************************************************************************)
(* Part 4: the type mapping of the schema builder, on one column with no   *)
(* children                                                                *)
(***************************************************************************)

\* largest magnitude of the scale of a column's data type
MaxScale == 1

VARIABLES
  tCol,     \* the column view handed to the type dispatcher
  tFail,    \* whether the construction primitive reports a failure
  tOut,     \* *out
  tStatus,  \* what the dispatch returned or threw
  tPc

typVars == <<tCol, tFail, tOut, tStatus, tPc>>

\* the type ids of columns without children
LeafTypeIds ==
  NumericTypes \cup ChronoTypes \cup DecimalTypes \cup {"BOOL8", "STRING", "EMPTY"}

TypedLeaf(t, scale) ==
  [type |-> t, nullable |-> FALSE, children |-> <<>>, scale |-> scale]

TypInit ==
  /\ tCol \in {TypedLeaf(t, s) : t \in LeafTypeIds, s \in (0 - MaxScale) .. MaxScale}
  /\ tFail \in BOOLEAN
  /\ tOut = BlankSchema
  /\ tStatus = "none"
  /\ tPc = "begin"

TypIdle ==
  /\ tCol = TypedLeaf("none", 0) /\ tFail = FALSE /\ tOut = BlankSchema
  /\ tStatus = "none" /\ tPc = "idle"

\* cudf::type_dispatcher(col.type(), dispatch_to_arrow_type{}, col, id, meta, out)
MapType ==
  /\ tPc = "begin"
  /\ LET r == DispatchToArrowType(tCol, LeafMeta("c"), BlankSchema, 0,
                                  IF tFail THEN 1 ELSE 0)
     IN /\ tOut' = r.node
        /\ tStatus' = r.st
  /\ tPc' = "done"
  /\ UNCHANGED <<tCol, tFail>>

(***************************************************************************)
(* Part 5: imported_column, the owner of the device-memory handles opened  *)
(* by import_ipc                                                           *)
(***************************************************************************)

\* most imported_column objects constructed
MaxImported == 3
\* most shared_ptr copies of one imported_column in the caller's hands
MaxRefs == 2

VARIABLES
  iState,   \* per object: "none", "alive" or "destroyed"
  iMask,    \* per object: whether it was given a validity handle
  iKids,    \* per object: the objects named by its `children` vector
  iRefs,    \* per object: the shared_ptr to it that the caller holds
  hOpen,    \* the handles that are open
  hCloses   \* per handle: how often it was closed

impVars == <<iState, iMask, iKids, iRefs, hOpen, hCloses>>

Imported == 1 .. MaxImported
DataHandle(o) == <<"data", o>>
MaskHandle(o) == <<"mask", o>>
HandleIds == {"data", "mask"} \X Imported

\* the handles moved into the object by its constructor
HandlesOf(o) == {DataHandle(o)} \cup (IF iMask[o] THEN {MaskHandle(o)} ELSE {})

ImpInit ==
  /\ iState = [o \in Imported |-> "none"]
  /\ iMask = [o \in Imported |-> FALSE]
  /\ iKids = [o \in Imported |-> {}]
  /\ iRefs = [o \in Imported |-> 0]
  /\ hOpen = {}
  /\ hCloses = [h \in HandleIds |-> 0]

ImpIdle ==
  /\ iState = <<>> /\ iMask = <<>> /\ iKids = <<>> /\ iRefs = <<>>
  /\ hOpen = {} /\ hCloses = <<>>

\* import_ipc opens the handles of a column and constructs its imported_column
\* (constructors of lines 58-63), handing the caller a shared_ptr to it
ConstructImported ==
  \E o \in Imported, m \in BOOLEAN :
    /\ iState[o] = "none"
    /\ \A q \in Imported : q < o => iState[q] # "none"
    /\ \E kids \in SUBSET {k \in Imported : iState[k] = "alive"} :
         iKids' = [iKids EXCEPT ![o] = kids]
    /\ iState' = [iState EXCEPT ![o] = "alive"]
    /\ iMask' = [iMask EXCEPT ![o] = m]
    /\ iRefs' = [iRefs EXCEPT ![o] = 1]
    /\ hOpen' = hOpen \cup {DataHandle(o)} \cup (IF m THEN {MaskHandle(o)} ELSE {})
    /\ UNCHANGED hCloses

\* the caller copies a shared_ptr<imported_column>
ShareImported ==
  \E o \in Imported :
    /\ iState[o] = "alive" /\ iRefs[o] > 0 /\ iRefs[o] < MaxRefs
    /\ iRefs' = [iRefs EXCEPT ![o] = @ + 1]
    /\ UNCHANGED <<iState, iMask, iKids, hOpen, hCloses>>

\* the shared_ptr to k that are left when the objects of `dead` are gone
StrongCount(k, refs, dead) ==
  refs[k] + Cardinality({q \in Imported \ dead : iState[q] = "alive" /\ k \in iKids[q]})

\* a destructor that takes the children with it whoever else holds them
HeldByNobodyElse(k, refs, dead) == TRUE

\* the last shared_ptr to k is gone
Unreferenced(k, refs, dead) == StrongCount(k, refs, dead) = 0

\* the objects destroyed with those of `dead`: the children nobody else holds
RECURSIVE Cascade(_, _)
Cascade(dead, refs) ==
  LET more == {k \in Imported \ dead :
                 /\ iState[k] = "alive"
                 /\ \E q \in dead : k \in iKids[q]
                 /\ Unreferenced(k, refs, dead)}
  IN IF more = {} THEN dead ELSE Cascade(dead \cup more, refs)

\* the caller drops a shared_ptr; with the last one ~imported_column (line 64)
\* runs: the object's handles are closed and its `children` vector is destroyed
DropImported ==
  \E o \in Imported :
    /\ iState[o] = "alive" /\ iRefs[o] > 0
    /\ LET refs == [iRefs EXCEPT ![o] = @ - 1]
           dead == IF StrongCount(o, refs, {}) = 0 THEN Cascade({o}, refs) ELSE {}
           closed == UNION {HandlesOf(q) : q \in dead}
       IN /\ iRefs' = refs
          /\ iState' = [q \in Imported |-> IF q \in dead THEN "destroyed" ELSE iState[q]]
          /\ hOpen' = hOpen \ closed
          /\ hCloses' = [h \in HandleIds |-> IF h \in closed THEN hCloses[h] + 1
                                             ELSE hCloses[h]]
    /\ UNCHANGED <<iMask, iKids>>

(***************************************************************************)
(* Specifications                                                          *)
(***************************************************************************)

DevIdle ==
  /\ rows = 0 /\ table = <<>> /\ tableCols = <<>> /\ cols = <<>>
  /\ colBufs = <<>> /\ contents = NoContents /\ lbuf = NoBuf
  /\ ltmp = BlankNode /\ top = BlankTop /\ children = <<>> /\ stream = <<>>
  /\ executed = 0 /\ event = NoEvent /\ freeCount = <<>> /\ freedBy = <<>>
  /\ pc = "idle" /\ idx = 1 /\ outcome = "idle" /\ failed = {}
  /\ result = NoResult /\ consumer = [synced |-> FALSE, released |-> FALSE]

vars == <<devVars, widVars, schVars, typVars, impVars>>

\* to_arrow_device, the device and the consumer of the exported array
Init == ImpIdle /\ DevInit /\ WidIdle /\ SchIdle /\ TypIdle
Next ==
  \/ BeginExport /\ UNCHANGED <<widVars, schVars, typVars, impVars>>
  \/ ConvertEmpty /\ UNCHANGED <<widVars, schVars, typVars, impVars>>
  \/ ConvertUnsupported /\ UNCHANGED <<widVars, schVars, typVars, impVars>>
  \/ DispatchInit /\ UNCHANGED <<widVars, schVars, typVars, impVars>>
  \/ DecimalAlloc /\ UNCHANGED <<widVars, schVars, typVars, impVars>>
  \/ DecimalKernel /\ UNCHANGED <<widVars, schVars, typVars, impVars>>
  \/ BoolsToMask /\ UNCHANGED <<widVars, schVars, typVars, impVars>>
  \/ ReleaseColumn /\ UNCHANGED <<widVars, schVars, typVars, impVars>>
  \/ SetNullMask /\ UNCHANGED <<widVars, schVars, typVars, impVars>>
  \/ SetDataBuffer /\ UNCHANGED <<widVars, schVars, typVars, impVars>>
  \/ SetNewBuffer /\ UNCHANGED <<widVars, schVars, typVars, impVars>>
  \/ FinishColumn /\ UNCHANGED <<widVars, schVars, typVars, impVars>>
  \/ EventCreate /\ UNCHANGED <<widVars, schVars, typVars, impVars>>
  \/ EventRecord /\ UNCHANGED <<widVars, schVars, typVars, impVars>>
  \/ AttachSyncEvent /\ UNCHANGED <<widVars, schVars, typVars, impVars>>
  \/ ReturnResult /\ UNCHANGED <<widVars, schVars, typVars, impVars>>
  \/ DeviceStep /\ UNCHANGED <<widVars, schVars, typVars, impVars>>
  \/ ConsumerWait /\ UNCHANGED <<widVars, schVars, typVars, impVars>>
  \/ ReleaseArray /\ UNCHANGED <<widVars, schVars, typVars, impVars>>
Spec == Init /\ [][Next]_vars

\* the widening kernel
InitWiden == ImpIdle /\ DevIdle /\ SchIdle /\ TypIdle /\ WidInit
NextWiden ==
  \/ WidenAlloc /\ UNCHANGED <<devVars, schVars, typVars, impVars>>
  \/ WidenThread /\ UNCHANGED <<devVars, schVars, typVars, impVars>>
  \/ WidenComplete /\ UNCHANGED <<devVars, schVars, typVars, impVars>>
SpecWiden == InitWiden /\ [][NextWiden]_vars

\* to_arrow_schema
InitSchema == ImpIdle /\ DevIdle /\ WidIdle /\ TypIdle /\ SchInit
NextSchema ==
  \/ SchemaBegin /\ UNCHANGED <<devVars, widVars, typVars, impVars>>
  \/ SchemaColumn /\ UNCHANGED <<devVars, widVars, typVars, impVars>>
  \/ SchemaReturn /\ UNCHANGED <<devVars, widVars, typVars, impVars>>
SpecSchema == InitSchema /\ [][NextSchema]_vars

\* the type mapping
InitTypes == ImpIdle /\ DevIdle /\ WidIdle /\ SchIdle /\ TypInit
NextTypes ==
  \/ MapType /\ UNCHANGED <<devVars, widVars, schVars, impVars>>
SpecTypes == InitTypes /\ [][NextTypes]_vars

\* the imported columns and the caller holding them
InitImported == DevIdle /\ WidIdle /\ SchIdle /\ TypIdle /\ ImpInit
NextImported ==
  \/ ConstructImported /\ UNCHANGED <<devVars, widVars, schVars, typVars>>
  \/ ShareImported /\ UNCHANGED <<devVars, widVars, schVars, typVars>>
  \/ DropImported /\ UNCHANGED <<devVars, widVars, schVars, typVars>>
SpecImported == InitImported /\ [][NextImported]_vars

(***************************************************************************)
(* Properties of to_arrow_device                                           *)
(***************************************************************************)

ErrorOutcomes == {"unsupported_type", "abi_build", "device_resource", "bad_alloc"}

\* the device buffers the source columns own before the call
SourceBufs ==
  {DataBuf(i) : i \in {j \in DOMAIN table : table[j].type # "EMPTY"}}
  \cup {MaskBuf(i) : i \in {j \in DOMAIN table : table[j].hasMask}}

SlotOwners(node) == {node.buf[1].owner, node.buf[2].owner} \ {NoBuf}
InChildSlot(b) == \E i \in DOMAIN children : b \in SlotOwners(children[i])
InLocalSlot(b) == b \in SlotOwners(ltmp)
HeldByColumn(b) == \E i \in DOMAIN colBufs : b \in {colBufs[i].data, colBufs[i].mask}
HeldByLocals(b) == b \in {contents.data, contents.mask, lbuf}
Live(b) == InChildSlot(b) \/ InLocalSlot(b) \/ HeldByColumn(b) \/ HeldByLocals(b)
Allocated(b) == b \in SourceBufs \/ Live(b) \/ freeCount[b] > 0

\* the buffer the export of column i puts into buffer slot 1 of its node
ExportedData(i) ==
  IF table[i].type \in {"DECIMAL32", "DECIMAL64", "BOOL8"} THEN NewBuf(i)
  ELSE DataBuf(i)

\* C1: after a successful to_arrow_device the table holds no columns and every
\* source column is released; the returned node holds each transferred buffer
\* (null mask, data, widened decimals, packed booleans) unfreed until it is
\* released, and its release frees each of them exactly once; no buffer is
\* leaked and none is freed twice.
C1_OwnershipExclusivity ==
  outcome = "ok" =>
    /\ tableCols = <<>> /\ cols = <<>>
    /\ \A i \in DOMAIN colBufs : colBufs[i].data = NoBuf /\ colBufs[i].mask = NoBuf
    /\ \A i \in {j \in DOMAIN table : table[j].type # "EMPTY"} :
         IF consumer.released
         THEN /\ freeCount[ExportedData(i)] = 1
              /\ table[i].hasMask => freeCount[MaskBuf(i)] = 1
         ELSE /\ freeCount[ExportedData(i)] = 0
              /\ children[i].buf[2].owner = ExportedData(i)
              /\ table[i].hasMask =>
                   freeCount[MaskBuf(i)] = 0 /\ children[i].buf[1].owner = MaskBuf(i)
    /\ \A b \in DOMAIN freeCount :
         /\ freeCount[b] <= 1
         /\ freeCount[b] = 1 => ~Live(b)
         /\ (consumer.released /\ Allocated(b)) => freeCount[b] = 1

\* a masked decimal32 column and an int32 column were exported and released
C1_Witness ==
  /\ outcome = "ok" /\ consumer.released /\ Len(table) = 2
  /\ table[1] = [type |-> "DECIMAL32", hasMask |-> TRUE]
  /\ table[2].type = "INT32"
  /\ freeCount[NewBuf(1)] = 1 /\ freeCount[MaskBuf(1)] = 1
  /\ freeCount[DataBuf(1)] = 1 /\ freeCount[DataBuf(2)] = 1

TableIntact ==
  /\ tableCols = [i \in 1 .. Len(table) |-> i]
  /\ \A i \in DOMAIN table :
       /\ colBufs[i].data = (IF table[i].type = "EMPTY" THEN NoBuf ELSE DataBuf(i))
       /\ colBufs[i].mask = (IF table[i].hasMask THEN MaskBuf(i) ELSE NoBuf)
  /\ \A b \in DOMAIN freeCount : freeCount[b] = 0

\* C2: a call that fails with the unsupported-type error (a string or
\* dictionary column at any index) has transferred no buffer: the table still
\* holds all of its columns with their buffers intact.
C2_AllOrNothing ==
  (pc = "done" /\ outcome = "unsupported_type"
   /\ \E i \in DOMAIN table : table[i].type \in {"STRING", "DICTIONARY32"})
  => TableIntact

\* the step on which the call fails
FailingStep == outcome = "running" /\ outcome' \in ErrorOutcomes

\* C3 (as amended): when a call fails partway, every buffer already in a slot
\* of an output node is freed exactly once by the node's destruction, and
\* every other buffer is freed exactly once by the destruction of its one
\* owner: its column, or the released contents / new buffer of the conversion
\* under way; afterwards no buffer has an owner and none was freed twice.
C3_FailureOwnership ==
  [][FailingStep =>
       \A b \in DOMAIN freeCount :
         /\ (InChildSlot(b) \/ InLocalSlot(b)) =>
              freeCount'[b] = 1 /\ freedBy'[b] = "node"
         /\ (HeldByColumn(b) /\ ~InChildSlot(b) /\ ~InLocalSlot(b)) =>
              freeCount'[b] = 1 /\ freedBy'[b] = "column"
         /\ (HeldByLocals(b) /\ ~InChildSlot(b) /\ ~InLocalSlot(b)) =>
              freeCount'[b] = 1 /\ freedBy'[b] \in {"contents", "local"}
         /\ Allocated(b) => freeCount'[b] = 1
         /\ ~Live(b)'
  ]_vars

\* the call failed at a string column after an int32 column was converted
C3_Witness ==
  /\ outcome = "unsupported_type" /\ Len(table) = 2
  /\ table[1] = [type |-> "INT32", hasMask |-> TRUE]
  /\ table[2] = [type |-> "STRING", hasMask |-> TRUE]
  /\ freeCount[DataBuf(1)] = 1 /\ freedBy[DataBuf(1)] = "node"
  /\ freeCount[MaskBuf(1)] = 1 /\ freedBy[MaskBuf(1)] = "node"
  /\ freeCount[DataBuf(2)] = 1 /\ freedBy[DataBuf(2)] = "column"

\* C3 as stated: on failure every buffer not in a node slot is still owned by
\* its original column and freed by that column's destruction.
C3_Original ==
  [][FailingStep =>
       \A b \in DOMAIN freeCount :
         /\ (InChildSlot(b) \/ InLocalSlot(b)) =>
              freeCount'[b] = 1 /\ freedBy'[b] = "node"
         /\ (Live(b) /\ ~InChildSlot(b) /\ ~InLocalSlot(b)) =>
              HeldByColumn(b) /\ freeCount'[b] = 1 /\ freedBy'[b] = "column"
  ]_vars

RecordPositions == {k \in DOMAIN stream : stream[k].op = "record"}
NeedsDeviceWork(i) == table[i].type \in {"DECIMAL32", "DECIMAL64", "BOOL8"}

\* C4: a successful call has recorded exactly one event on the stream; the
\* record is the last entry, behind the device work of every converted column,
\* and was issued when every column's node had its buffers; sync_event is that
\* event; a consumer that has waited on it finds all that work completed.
C4_SyncEvent ==
  /\ outcome = "ok" =>
       /\ Cardinality(RecordPositions) = 1
       /\ \A r \in RecordPositions :
            /\ r = Len(stream)
            /\ \A i \in DOMAIN table : NeedsDeviceWork(i) =>
                 \E k \in 1 .. (r - 1) :
                   stream[k].col = i /\ stream[k].op \in {"widen", "pack"}
            /\ result.sync_event = stream[r].ev
            /\ result.sync_event # "null"
       /\ consumer.synced =>
            \A k \in DOMAIN stream : stream[k].op # "record" => k <= executed
  /\ (RecordPositions # {} /\ outcome = "running") =>
       \A i \in {j \in DOMAIN table : table[j].type # "EMPTY"} :
         children[i].state = "built" /\ children[i].buf[2].owner = ExportedData(i)

\* the consumer has waited on the event of an export that widened and packed
C4_Witness ==
  /\ outcome = "ok" /\ consumer.synced /\ Len(table) = 2
  /\ table[1].type = "DECIMAL64" /\ table[2].type = "BOOL8"
  /\ Len(stream) = 3 /\ executed = 3

\* C5: every created sync event is destroyed exactly once, by the release of
\* the top-level node and not before it; no path through to_arrow_device
\* (return, or failure after the creation) leaves a created event undestroyed.
C5_EventLifecycle ==
  event.handle # "null" =>
    /\ event.destroyed <= 1
    /\ event.destroyed = 1 => consumer.released
    /\ (pc = "done" /\ (outcome \in ErrorOutcomes \/ consumer.released)) =>
         event.destroyed = 1

\* C10: a call of to_arrow_device or to_arrow_schema in which a construction
\* primitive, the event creation or the event recording reported a failure
\* never returns a result as if it had succeeded.
C10_ErrorsSurface ==
  /\ outcome = "ok" => failed = {}
  /\ sOutcome = "ok" => sFailed = {}

\* how many owners a buffer has among the source columns, the released
\* contents, the buffer slots of the array nodes, and (with `locals`) the local
\* unique_ptr holding a newly allocated buffer
OwnerCount(b, locals) ==
  ColumnsOcc(b, colBufs)
  + N(contents.data = b) + N(contents.mask = b)
  + N(ltmp.buf[1].owner = b) + N(ltmp.buf[2].owner = b)
  + NodesOcc(b, children)
  + (IF locals THEN N(lbuf = b) ELSE 0)

\* the buffers that exist and have not been freed
Unfreed(b) == freeCount[b] = 0 /\ (b \in SourceBufs \/ Live(b))

\* a pointer written into a buffer slot is owned by the deallocator of that
\* slot and by no source column
SlotsOwnTheirData ==
  \A node \in {ltmp} \cup {children[i] : i \in DOMAIN children} :
    \A k \in 1 .. 2 :
      node.buf[k].data # NoBuf =>
        node.buf[k].owner = node.buf[k].data /\ ~HeldByColumn(node.buf[k].data)

ZeroCopyTypes == RepLayoutTypes \cup {"DECIMAL128"}

\* something was enqueued on the stream for column i
DeviceWorkFor(i) == \E k \in 1 .. Len(stream) : stream[k].op # "record" /\ stream[k].col = i

\* C14: the array node built for a column of a fixed-width type or of
\* decimal128 has in buffer slot 1 the data buffer the column owned, in buffer
\* slot 0 the column's null mask if it had one and nothing otherwise, the
\* column's size as length and its null count; no buffer was allocated and no
\* device work enqueued for the column.
C14_ZeroCopy ==
  \A i \in DOMAIN children :
    (children[i].state = "built" /\ table[i].type \in ZeroCopyTypes) =>
       /\ children[i].buf[2] = [data |-> DataBuf(i), owner |-> DataBuf(i)]
       /\ children[i].buf[1] =
            (IF table[i].hasMask THEN [data |-> MaskBuf(i), owner |-> MaskBuf(i)]
             ELSE EmptySlot)
       /\ children[i].length = rows
       /\ children[i].null_count = NullCountOf(i)
       /\ ~Live(NewBuf(i)) /\ freeCount[NewBuf(i)] = 0
       /\ ~DeviceWorkFor(i)
       /\ freeCount[DataBuf(i)] = 0 /\ freeCount[MaskBuf(i)] = 0

\* a masked int32 column with a null and a decimal128 column without a mask
\* were exported
C14_Witness ==
  /\ outcome = "ok" /\ ~consumer.released /\ rows > 0 /\ Len(table) = 2
  /\ table[1] = [type |-> "INT32", hasMask |-> TRUE]
  /\ table[2] = [type |-> "DECIMAL128", hasMask |-> FALSE]
  /\ children[1].null_count > 0
  /\ children[1].buf[1].data = MaskBuf(1) /\ children[1].buf[2].data = DataBuf(1)
  /\ children[2].buf[1] = EmptySlot /\ children[2].buf[2].data = DataBuf(2)

(***************************************************************************)
(* Properties of the widening kernel                                       *)
(***************************************************************************)

\* C6: the buffer handed to slot 1 holds one 128-bit slot per input element;
\* in slot i the low-order word is element i and every higher-order word is 0
\* when the element is >= 0 and all bits set (-1) when it is < 0.
C6_SignExtension ==
  wPc = "done" =>
    LET words == IF wType = "DECIMAL32" THEN 4 ELSE 2
        bytes == IF wType = "DECIMAL32" THEN 4 ELSE 8
    IN /\ Len(wOut) * bytes = Len(wIn) * 16
       /\ \A e \in DOMAIN wIn :
            /\ wOut[(e - 1) * words + 1] = [written |-> TRUE, val |-> wIn[e]]
            /\ \A k \in 2 .. words :
                 wOut[(e - 1) * words + k] =
                   [written |-> TRUE, val |-> IF wIn[e] >= 0 THEN 0 ELSE -1]

\* a decimal64 column with a negative and a non-negative element was widened
C6_Witness ==
  /\ wPc = "done" /\ wType = "DECIMAL64" /\ Len(wIn) = 2
  /\ wIn[1] < 0 /\ wIn[2] >= 0

(***************************************************************************)
(* Properties of to_arrow_schema                                           *)
(***************************************************************************)

\* an iteration of the loop has dispatched on sCol and sMeta
Dispatched == sStatus \notin {"none", "skipped"}

\* some struct of the hierarchy, paired with metadata as the dispatch pairs
\* them, has a number of children that differs from its metadata entries
RECURSIVE StructMismatch(_, _)
StructMismatch(col, meta) ==
  CASE col.type = "STRUCT" ->
         \/ Len(meta.children_meta) # Len(col.children)
         \/ \E i \in 1 .. Len(col.children) :
              StructMismatch(col.children[i], meta.children_meta[i])
    [] col.type = "LIST" -> StructMismatch(col.children[1], ListChildMeta(meta))
    [] col.type = "DICTIONARY32" -> StructMismatch(col.children[2], DictKeysMeta(meta))
    [] OTHER -> FALSE

\* no struct with mismatching metadata has had its type set or children allocated
RECURSIVE MismatchedUnallocated(_, _, _)
MismatchedUnallocated(col, meta, node) ==
  CASE col.type = "STRUCT" ->
         IF Len(meta.children_meta) # Len(col.children)
         THEN node.children = <<>> /\ node.type = "uninitialized"
         ELSE \A i \in 1 .. Len(node.children) :
                MismatchedUnallocated(col.children[i], meta.children_meta[i],
                                      node.children[i])
    [] col.type = "LIST" ->
         \A i \in 1 .. Len(node.children) :
           MismatchedUnallocated(col.children[1], ListChildMeta(meta), node.children[i])
    [] col.type = "DICTIONARY32" ->
         \A i \in 1 .. Len(node.dictionary) :
           MismatchedUnallocated(col.children[2], DictKeysMeta(meta), node.dictionary[i])
    [] OTHER -> TRUE

\* C7: when a struct column anywhere in the hierarchy has a number of children
\* that differs from the number of child metadata entries supplied for it, the
\* call fails with the shape-mismatch error (unless a construction primitive
\* reported a failure first), and the schema node of that struct has no
\* children allocated.
C7_StructShape ==
  (Dispatched /\ StructMismatch(sCol, sMeta)) =>
     /\ sStatus \in {"shape_mismatch", "ENOMEM"}
     /\ sOutcome = SchemaOutcomeOf(sStatus)
     /\ "ENOMEM" \notin sFailed => sOutcome = "shape_mismatch"
     /\ MismatchedUnallocated(sCol, sMeta, sChild)

\* a struct nested in a struct column is refused after the outer struct's
\* children were allocated
C7_Witness ==
  /\ sStatus = "shape_mismatch"
  /\ sCol.type = "STRUCT"
  /\ StructShapeOk(sCol, sMeta)
  /\ sChild.children # <<>>
  /\ \E i \in 1 .. Len(sCol.children) :
       /\ sCol.children[i].type = "STRUCT"
       /\ ~StructShapeOk(sCol.children[i], sMeta.children_meta[i])
       /\ sChild.children[i].children = <<>>

\* the metadata has the shape of the column hierarchy: as many entries as
\* children for a struct, at most the one entry for the child of a list or the
\* keys of a dictionary, none for a leaf
RECURSIVE MetaFits(_, _)
MetaFits(col, meta) ==
  CASE col.type = "STRUCT" ->
         /\ Len(meta.children_meta) = Len(col.children)
         /\ \A i \in 1 .. Len(col.children) :
              MetaFits(col.children[i], meta.children_meta[i])
    [] col.type = "LIST" ->
         /\ Len(meta.children_meta) <= 1
         /\ MetaFits(col.children[1], ListChildMeta(meta))
    [] col.type = "DICTIONARY32" ->
         /\ Len(meta.children_meta) <= 1
         /\ MetaFits(col.children[2], DictKeysMeta(meta))
    [] OTHER -> meta.children_meta = <<>>

\* C8: to_arrow_schema returns a schema only if the metadata has the shape of
\* the column hierarchy, for list, dictionary and leaf columns too.
C8_ShapeMismatchFails ==
  (sOutcome = "ok" /\ sCols > 0) => MetaFits(sCol, sMeta)

\* C9: the schema of a list column has exactly one child, named by the first
\* child metadata entry if there is one and "element" otherwise.
C9_ListChild ==
  (sStatus = NANOARROW_OK /\ sCol.type = "LIST") =>
     /\ Len(sChild.children) = 1
     /\ sChild.children[1].name = ListChildMeta(sMeta).name

\* every child node of every struct node carries the name of its own
\* metadata entry
RECURSIVE StructNamesOk(_, _, _)
StructNamesOk(col, meta, node) ==
  CASE col.type = "STRUCT" ->
         \A i \in 1 .. Len(node.children) :
           /\ node.children[i].name = meta.children_meta[i].name
           /\ StructNamesOk(col.children[i], meta.children_meta[i], node.children[i])
    [] col.type = "LIST" ->
         \A i \in 1 .. Len(node.children) :
           StructNamesOk(col.children[1], ListChildMeta(meta), node.children[i])
    [] col.type = "DICTIONARY32" ->
         \A i \in 1 .. Len(node.dictionary) :
           StructNamesOk(col.children[2], DictKeysMeta(meta), node.dictionary[i])
    [] OTHER -> TRUE

\* C15: in the schema of a struct column, at every depth, the i-th child node
\* is named metadata.children_meta[i].name.
C15_StructChildNames ==
  sStatus = NANOARROW_OK => StructNamesOk(sCol, sMeta, sChild)

\* the node of a column, and the nodes of its struct fields and of its list
\* element, carry the nullability of their own column
RECURSIVE FlagsOk(_, _)
FlagsOk(col, node) ==
  /\ node.flags = Flags(col.nullable)
  /\ CASE col.type = "STRUCT" ->
            \A i \in 1 .. Len(node.children) : FlagsOk(col.children[i], node.children[i])
       [] col.type = "LIST" ->
            \A i \in 1 .. Len(node.children) : FlagsOk(col.children[1], node.children[i])
       [] OTHER -> TRUE

\* C16: every schema node of a column (top-level column, struct field, list
\* node, list element) is flagged nullable exactly if its own column is.
C16_NullableFlags ==
  sStatus = NANOARROW_OK => FlagsOk(sCol, sChild)

(***************************************************************************)
(* Properties of the type mapping                                          *)
(***************************************************************************)

Timestamps ==
  {"TIMESTAMP_SECONDS", "TIMESTAMP_MILLISECONDS", "TIMESTAMP_MICROSECONDS",
   "TIMESTAMP_NANOSECONDS"}
Durations ==
  {"DURATION_SECONDS", "DURATION_MILLISECONDS", "DURATION_MICROSECONDS",
   "DURATION_NANOSECONDS"}

\* the unit a type id is named after
UnitOf(id) ==
  CASE id \in {"TIMESTAMP_SECONDS", "DURATION_SECONDS"} -> "s"
    [] id \in {"TIMESTAMP_MILLISECONDS", "DURATION_MILLISECONDS"} -> "ms"
    [] id \in {"TIMESTAMP_MICROSECONDS", "DURATION_MICROSECONDS"} -> "us"
    [] id \in {"TIMESTAMP_NANOSECONDS", "DURATION_NANOSECONDS"} -> "ns"

\* the type ids with an external type tag
SupportedLeafTypes ==
  NumericTypes \cup Timestamps \cup Durations \cup DecimalTypes
  \cup {"BOOL8", "STRING", "TIMESTAMP_DAYS"}

\* the one tag of a supported type id
ExpectedTag(id) ==
  CASE id \in Timestamps -> "timestamp[" \o UnitOf(id) \o "]"
    [] id \in Durations -> "duration[" \o UnitOf(id) \o "]"
    [] id = "TIMESTAMP_DAYS" -> "date32"
    [] id \in DecimalTypes -> "decimal128"
    [] id = "BOOL8" -> "bool"
    [] id = "STRING" -> "string"
    [] id = "INT8" -> "int8"
    [] id = "INT16" -> "int16"
    [] id = "INT32" -> "int32"
    [] id = "INT64" -> "int64"
    [] id = "UINT8" -> "uint8"
    [] id = "UINT16" -> "uint16"
    [] id = "UINT32" -> "uint32"
    [] id = "UINT64" -> "uint64"
    [] id = "FLOAT32" -> "float"
    [] id = "FLOAT64" -> "double"

\* C11: the dispatch on a supported primitive type id sets exactly the tag of
\* that id (a timestamp or duration with the unit of the id, TIMESTAMP_DAYS as
\* date32, every decimal as decimal128 with the negated scale); on any other
\* type id it throws the unsupported-type error and sets no tag.
C11_TypeMapper ==
  tPc = "done" =>
    IF tCol.type \in SupportedLeafTypes
    THEN IF tFail
         THEN tStatus = "ENOMEM" /\ tOut = BlankSchema
         ELSE /\ tStatus = NANOARROW_OK
              /\ tOut.type = ExpectedTag(tCol.type)
              /\ tOut.children = <<>> /\ tOut.dictionary = <<>>
              /\ tCol.type \in DecimalTypes =>
                   /\ Len(tOut.params) = 3
                   /\ tOut.params[3] = 0 - tCol.scale
              /\ tCol.type \notin DecimalTypes => tOut.params = <<>>
    ELSE tStatus = "unsupported_type" /\ tOut = BlankSchema

\* a 32-bit decimal mapped to the 128-bit tag, and a type id outside the
\* enumeration refused
C11_Witness ==
  /\ tPc = "done"
  /\ \/ tCol.type = "DECIMAL32" /\ tOut.type = "decimal128" /\ tCol.scale # 0
     \/ tCol.type = "DURATION_DAYS" /\ tStatus = "unsupported_type"

(***************************************************************************)
(* Properties of imported_column                                           *)
(***************************************************************************)

\* C12: every handle given to an imported_column is closed at most once, is
\* closed exactly when that imported_column has been destroyed and is open
\* while it is alive; a handle belongs to one imported_column only; and while
\* an imported_column is alive, the children it holds are alive with their
\* handles open.
C12_ImportedOwnership ==
  /\ \A o \in Imported :
       /\ iState[o] = "none" => HandlesOf(o) \cap hOpen = {}
       /\ iState[o] = "alive" => HandlesOf(o) \subseteq hOpen
       /\ \A h \in HandlesOf(o) :
            /\ hCloses[h] <= 1
            /\ hCloses[h] = 1 <=> iState[o] = "destroyed"
       /\ iState[o] = "alive" =>
            \A k \in iKids[o] : iState[k] = "alive" /\ HandlesOf(k) \subseteq hOpen
  /\ \A o \in Imported, q \in Imported :
       (o # q /\ iState[o] # "none" /\ iState[q] # "none") =>
          HandlesOf(o) \cap HandlesOf(q) = {}
  /\ \A h \in HandleIds : h \in hOpen => hCloses[h] = 0

\* a parent was destroyed and closed its handles while a child of it, still
\* held by another parent or by the caller, stays open
C12_Witness ==
  \E o \in Imported, k \in Imported :
    /\ iState[o] = "destroyed" /\ k \in iKids[o] /\ iMask[o]
    /\ hCloses[DataHandle(o)] = 1 /\ hCloses[MaskHandle(o)] = 1
    /\ iState[k] = "alive" /\ DataHandle(k) \in hOpen

=============================================================================
